---- MODULE Spec2Model ----
(***************************************************************************)
(* EmailNotification (superset/reports/notifications/email.py): rendering *)
(* a report's content into an e-mail and handing it to send_email_smtp.   *)
(*                                                                         *)
(* Python values.  A str or bytes value is a sequence of atoms, "" and b"" *)
(* are <<>>.  An Optional value is a sequence of length at most one: None  *)
(* is <<>>, a present value v is <<v>>.  A dict is a function.  An HTML    *)
(* string is a sequence of tokens (text, start tag, end tag).              *)
(***************************************************************************)
EXTENDS Integers, Sequences, FiniteSets, TLC

VARIABLES
    content,                \* self._content: the report content of this send
    config,                 \* app.config: SMTP_MAIL_FROM, EMAIL_REPORTS_SUBJECT_PREFIX
    recipient_config_json,  \* self._recipient.recipient_config_json
    pc,                     \* position of send(): subject, content, to, transport, delivered, raised
    subject,                \* local `subject` of send()
    rendered,               \* local `content` of send(): the EmailContent
    to,                     \* local `to` of send()
    raised,                 \* the exception that left send(), type "" while none has
    calls,                  \* the calls made so far, in order
    sent,                   \* the arguments of each send_email_smtp call
    outcomes,               \* how each send_email_smtp call ended: "ok" or the exception raised
    log                     \* the records written to the module's logger

vars == <<content, config, recipient_config_json, pc, subject, rendered, to,
          raised, calls, sent, outcomes, log>>

\* Longest HTML input (in tokens) of the sanitizer specification.
MaxLen == 2

----------------------------------------------------------------------------
(* Python values *)

None == <<>>

Some(v) == <<v>>

\* `if x:` for an Optional[str] or Optional[bytes]: neither None nor empty.
Truthy(o) == o # None /\ o[1] # <<>>

\* `x or ""`
OrEmpty(o) == IF Truthy(o) THEN o[1] ELSE <<>>

NoException == [type |-> "", cause |-> ""]

----------------------------------------------------------------------------
(* HTML and bleach.clean *)

Text(s) == [kind |-> "text", name |-> s, attrs |-> {}, escaped |-> FALSE]

StartTag(n, a) == [kind |-> "start", name |-> n, attrs |-> a, escaped |-> FALSE]

EndTag(n) == [kind |-> "end", name |-> n, attrs |-> {}, escaped |-> FALSE]

\* A token that is markup in the e-mail: a tag whose angle brackets were not
\* turned into &lt; &gt;.
IsTag(t) == t.kind # "text" /\ ~t.escaped

TABLE_TAGS == {"table", "th", "tr", "td", "thead", "tbody", "tfoot"}

\* bleach.clean's default `tags`.
ALLOWED_TAGS == {"a", "abbr", "acronym", "b", "blockquote", "code", "em", "i",
                 "li", "ol", "strong", "ul"}

\* bleach.clean's default `attributes`.
ALLOWED_ATTRIBUTES == [a |-> {"href", "title"}, abbr |-> {"title"},
                       acronym |-> {"title"}]

\* What bleach.clean makes of one token: text is kept; a tag on the allow-list
\* is kept with its allowed attributes only; any other tag is removed when
\* strip is set and otherwise escaped, so that it shows as text.
clean_token(t, tags, attributes, strip) ==
    IF t.kind = "text" THEN <<t>>
    ELSE IF t.name \in tags
         THEN <<[t EXCEPT !.attrs =
                    t.attrs \cap (IF t.name \in DOMAIN attributes
                                  THEN attributes[t.name] ELSE {})]>>
    ELSE IF strip THEN <<>>
    ELSE <<[t EXCEPT !.escaped = TRUE]>>

RECURSIVE bleach_clean(_, _, _, _)
\* bleach.clean(text, tags, attributes, strip)
bleach_clean(text, tags, attributes, strip) ==
    IF text = <<>> THEN <<>>
    ELSE clean_token(Head(text), tags, attributes, strip)
         \o bleach_clean(Tail(text), tags, attributes, strip)

\* The description put into the body as it came, never sanitized.
description_unsanitized(description) == OrEmpty(description)

\* description = bleach.clean(self._content.description or "")
clean_description(description) ==
    bleach_clean(OrEmpty(description), ALLOWED_TAGS, ALLOWED_ATTRIBUTES, FALSE)

\* embedded_data = bleach.clean(self._content.embedded_data or "", tags=TABLE_TAGS)
clean_embedded_data(embedded_data) ==
    bleach_clean(OrEmpty(embedded_data), TABLE_TAGS, ALLOWED_ATTRIBUTES, FALSE)

----------------------------------------------------------------------------
(* _get_smtp_domain and the content id *)

RECURSIVE IndexOf(_, _, _)
\* s.find(x) from position i on; 0 if absent.
IndexOf(s, x, i) ==
    IF i > Len(s) THEN 0 ELSE IF s[i] = x THEN i ELSE IndexOf(s, x, i + 1)

RECURSIVE split(_, _)
\* s.split(sep): the list of the parts between the separators.
split(s, sep) ==
    LET i == IndexOf(s, sep, 1)
    IN  IF i = 0 THEN <<s>>
        ELSE <<SubSeq(s, 1, i - 1)>> \o split(SubSeq(s, i + 1, Len(s)), sep)

\* email.utils.parseaddr(addr)[1]: the address between < and > of
\* "Real Name <address>", the whole string when it has no angle brackets.
parseaddr(addr) ==
    LET lt == IndexOf(addr, "<", 1)
        gt == IndexOf(addr, ">", 1)
    IN  IF lt # 0 /\ gt > lt THEN SubSeq(addr, lt + 1, gt - 1) ELSE addr

\* parseaddr(app.config["SMTP_MAIL_FROM"])[1].split("@")[1]
_get_smtp_domain(cfg) ==
    LET parts == split(parseaddr(cfg.SMTP_MAIL_FROM), "@")
    IN  IF Len(parts) < 2
        THEN [raised |-> "IndexError", value |-> <<>>]
        ELSE [raised |-> "", value |-> parts[2]]

\* email.utils.make_msgid(domain): "<unique@domain>"
make_msgid(unique, domain) == <<"<", unique, "@">> \o domain \o <<">">>

\* make_msgid(domain)[1:-1]: the message id without its < and >
msgid_of(unique, domain) ==
    LET m == make_msgid(unique, domain) IN SubSeq(m, 2, Len(m) - 1)

ImgOpen == <<"<img width=\"1000px\" src=\"cid:">>

ImgClose == <<"\">">>

\* The image tag written whether or not there is a screenshot.
img_tag_always(msgid, screenshot) == ImgOpen \o msgid \o ImgClose

\* '<img width="1000px" src="cid:{}">'.format(msgid) if screenshot else ""
img_tag(msgid, screenshot) ==
    IF Truthy(screenshot) THEN ImgOpen \o msgid \o ImgClose ELSE <<>>

----------------------------------------------------------------------------
(* _get_content, _get_subject, _get_to *)

\* _error_template(text): "Error: %(text)s"
_error_template(text) == [template |-> "error", text |-> text]

EmailContent(body, data, images) == [body |-> body, data |-> data, images |-> images]

\* The local `content` of send() before _get_content has returned.
NoContent == EmailContent([template |-> "unset"], None, None)

\* image = {msgid: self._content.screenshot} if there is a screenshot
image_of(msgid, screenshot) ==
    IF Truthy(screenshot) THEN Some(msgid :> screenshot[1]) ELSE None

\* The csv attached only when there is no screenshot.
csv_data_elif(cnt) ==
    IF Truthy(cnt.csv) /\ ~Truthy(cnt.screenshot)
    THEN Some((cnt.name \o <<".csv">>) :> cnt.csv[1])
    ELSE None

\* csv_data = {"%(name)s.csv": self._content.csv} if there is a csv
csv_data(cnt) ==
    IF Truthy(cnt.csv) THEN Some((cnt.name \o <<".csv">>) :> cnt.csv[1]) ELSE None

\* The body of a report: the template with its four substitutions.
report_body(cnt, msgid) ==
    [template |-> "report",
     description |-> clean_description(cnt.description),
     url |-> cnt.url,
     embedded_data |-> clean_embedded_data(cnt.embedded_data),
     img_tag |-> img_tag(msgid, cnt.screenshot)]

\* The error branch taken after the attachments were built, and keeping them.
_get_content_error_last(cnt, cfg, unique) ==
    LET domain == _get_smtp_domain(cfg)
        msgid == msgid_of(unique, domain.value)
    IN  IF domain.raised # ""
        THEN [raised |-> domain.raised, value |-> NoContent,
              calls |-> <<"_get_smtp_domain">>]
        ELSE [raised |-> "",
              value |-> EmailContent(
                  IF Truthy(cnt.text) THEN _error_template(cnt.text[1])
                  ELSE report_body(cnt, msgid),
                  csv_data(cnt), image_of(msgid, cnt.screenshot)),
              calls |-> <<"_get_smtp_domain", "make_msgid", "bleach.clean",
                          "bleach.clean">>]

\* _get_content(): the EmailContent, or the exception raised on the way, and
\* the calls made.  `unique` is what make_msgid draws (time, pid, random).
_get_content(cnt, cfg, unique) ==
    IF Truthy(cnt.text)
    THEN [raised |-> "",
          value |-> EmailContent(_error_template(cnt.text[1]), None, None),
          calls |-> <<"_error_template">>]
    ELSE LET domain == _get_smtp_domain(cfg)
             msgid == msgid_of(unique, domain.value)
         IN  IF domain.raised # ""
             THEN [raised |-> domain.raised, value |-> NoContent,
                   calls |-> <<"_get_smtp_domain">>]
             ELSE [raised |-> "",
                   value |-> EmailContent(report_body(cnt, msgid), csv_data(cnt),
                                          image_of(msgid, cnt.screenshot)),
                   calls |-> <<"_get_smtp_domain", "make_msgid", "bleach.clean",
                               "bleach.clean">>]

\* _get_subject(): "%(prefix)s %(title)s"
_get_subject(cnt, cfg) == cfg.EMAIL_REPORTS_SUBJECT_PREFIX \o <<" ">> \o cnt.name

\* The str a JSON string literal decodes to.
json_str(lit) == IF lit = "" THEN <<>> ELSE <<lit>>

\* json.loads(s) for a JSON text given as its tokens: an object with no or
\* one member, an array, or a text that does not parse.
json_loads(s) ==
    IF s = <<"{", "}">> THEN [raised |-> "", kind |-> "dict", value |-> <<>>]
    ELSE IF Len(s) = 5 /\ s[1] = "{" /\ s[3] = ":" /\ s[5] = "}"
         THEN [raised |-> "", kind |-> "dict", value |-> (s[2] :> json_str(s[4]))]
    ELSE IF s = <<"[", "]">> THEN [raised |-> "", kind |-> "list", value |-> <<>>]
    ELSE [raised |-> "JSONDecodeError", kind |-> "", value |-> <<>>]

\* The target looked up with a default: .get("target", "")
_get_to_default(blob) ==
    LET parsed == json_loads(blob)
    IN  IF parsed.raised = "" /\ parsed.kind = "dict"
           /\ "target" \in DOMAIN parsed.value
        THEN [raised |-> "", value |-> parsed.value["target"]]
        ELSE [raised |-> "", value |-> <<>>]

\* _get_to(): json.loads(self._recipient.recipient_config_json)["target"]
_get_to(blob) ==
    LET parsed == json_loads(blob)
    IN  IF parsed.raised # "" THEN [raised |-> parsed.raised, value |-> <<>>]
        ELSE IF parsed.kind # "dict" THEN [raised |-> "TypeError", value |-> <<>>]
        ELSE IF "target" \notin DOMAIN parsed.value
             THEN [raised |-> "KeyError", value |-> <<>>]
        ELSE [raised |-> "", value |-> parsed.value["target"]]

----------------------------------------------------------------------------
(* send() *)

\* What make_msgid can draw for two messages.
Uniques == {"1604647860.7.1", "1604647861.7.2"}

\* How send_email_smtp can end: it returns, or it raises.
TransportOutcomes == {"ok", "SMTPAuthenticationError", "ConnectionRefusedError"}

Terminal == {"delivered", "raised"}

\* subject = self._get_subject()
GetSubject ==
    /\ pc = "subject"
    /\ subject' = _get_subject(content, config)
    /\ calls' = Append(calls, "_get_subject")
    /\ pc' = "content"
    /\ UNCHANGED <<content, config, recipient_config_json, rendered, to, raised,
                   sent, outcomes, log>>

\* content = self._get_content(); an exception of it leaves send() as it is
GetContent ==
    /\ pc = "content"
    /\ \E unique \in Uniques :
         LET r == _get_content(content, config, unique)
         IN  /\ rendered' = r.value
             /\ calls' = Append(calls, "_get_content") \o r.calls
             /\ IF r.raised = ""
                THEN pc' = "to" /\ raised' = raised
                ELSE pc' = "raised" /\ raised' = [type |-> r.raised, cause |-> ""]
    /\ UNCHANGED <<content, config, recipient_config_json, subject, to, sent,
                   outcomes, log>>

\* to = self._get_to(); an exception of it leaves send() as it is
GetTo ==
    /\ pc = "to"
    /\ LET r == _get_to(recipient_config_json)
       IN  /\ to' = r.value
           /\ IF r.raised = ""
              THEN pc' = "transport" /\ raised' = raised
              ELSE pc' = "raised" /\ raised' = [type |-> r.raised, cause |-> ""]
    /\ calls' = Append(calls, "_get_to")
    /\ UNCHANGED <<content, config, recipient_config_json, subject, rendered,
                   sent, outcomes, log>>

\* The arguments send() gives send_email_smtp.
smtp_call ==
    [to |-> to, subject |-> subject, html_content |-> rendered.body,
     files |-> <<>>, data |-> rendered.data, images |-> rendered.images,
     bcc |-> <<>>, mime_subtype |-> "related", dryrun |-> FALSE]

\* The log record written before the call, whatever the call does.
SendEmailSmtpLogFirst ==
    /\ pc = "transport"
    /\ \E outcome \in TransportOutcomes :
         /\ sent' = Append(sent, smtp_call)
         /\ outcomes' = Append(outcomes, outcome)
         /\ calls' = calls \o <<"logger.info", "send_email_smtp">>
         /\ log' = Append(log, "Report sent to email")
         /\ IF outcome = "ok"
            THEN pc' = "delivered" /\ raised' = raised
            ELSE /\ pc' = "raised"
                 /\ raised' = [type |-> "NotificationError", cause |-> outcome]
    /\ UNCHANGED <<content, config, recipient_config_json, subject, rendered, to>>

\* A failed call tried once more before the error is raised.
SendEmailSmtpRetry ==
    /\ pc = "transport"
    /\ \E outcome \in TransportOutcomes :
         /\ sent' = Append(sent, smtp_call)
         /\ outcomes' = Append(outcomes, outcome)
         /\ IF outcome = "ok"
            THEN /\ calls' = calls \o <<"send_email_smtp", "logger.info">>
                 /\ log' = Append(log, "Report sent to email")
                 /\ pc' = "delivered"
                 /\ raised' = raised
            ELSE /\ calls' = Append(calls, "send_email_smtp")
                 /\ log' = log
                 /\ IF Len(sent) = 0
                    THEN pc' = pc /\ raised' = raised
                    ELSE /\ pc' = "raised"
                         /\ raised' = [type |-> "NotificationError", cause |-> outcome]
    /\ UNCHANGED <<content, config, recipient_config_json, subject, rendered, to>>

\* The transport's exception leaving send() as it is, without the except clause.
SendEmailSmtpUnwrapped ==
    /\ pc = "transport"
    /\ \E outcome \in TransportOutcomes :
         /\ sent' = Append(sent, smtp_call)
         /\ outcomes' = Append(outcomes, outcome)
         /\ IF outcome = "ok"
            THEN /\ calls' = calls \o <<"send_email_smtp", "logger.info">>
                 /\ log' = Append(log, "Report sent to email")
                 /\ pc' = "delivered"
                 /\ raised' = raised
            ELSE /\ calls' = Append(calls, "send_email_smtp")
                 /\ log' = log
                 /\ pc' = "raised"
                 /\ raised' = [type |-> outcome, cause |-> ""]
    /\ UNCHANGED <<content, config, recipient_config_json, subject, rendered, to>>

\* try: send_email_smtp(...); logger.info("Report sent to email")
\* except Exception as ex: raise NotificationError(ex)
SendEmailSmtp ==
    /\ pc = "transport"
    /\ \E outcome \in TransportOutcomes :
         /\ sent' = Append(sent, smtp_call)
         /\ outcomes' = Append(outcomes, outcome)
         /\ IF outcome = "ok"
            THEN /\ calls' = calls \o <<"send_email_smtp", "logger.info">>
                 /\ log' = Append(log, "Report sent to email")
                 /\ pc' = "delivered"
                 /\ raised' = raised
            ELSE /\ calls' = Append(calls, "send_email_smtp")
                 /\ log' = log
                 /\ pc' = "raised"
                 /\ raised' = [type |-> "NotificationError", cause |-> outcome]
    /\ UNCHANGED <<content, config, recipient_config_json, subject, rendered, to>>

Next == GetSubject \/ GetContent \/ GetTo \/ SendEmailSmtp

----------------------------------------------------------------------------
(* The inputs of a send *)

\* A description as a user may have written it.
SampleDescription ==
    <<StartTag("b", {}), Text("hi"), EndTag("b"), StartTag("script", {}),
      Text("x"), EndTag("script"), StartTag("img", {"src", "onerror"})>>

\* An embedded table as a dataframe renders, with a cell a user controls.
SampleTable ==
    <<StartTag("table", {"border", "class"}), StartTag("tr", {}), StartTag("td", {}),
      Text("1"), EndTag("td"), EndTag("tr"), EndTag("table"),
      StartTag("script", {}), Text("bad()"), EndTag("script")>>

OptionalText == {None, Some(<<>>), Some(<<"Report failed">>)}

OptionalBytes(b) == {None, Some(<<>>), Some(<<b>>)}

FromAddresses ==
    {<<"superset", "@", "superset.com">>,
     <<"Superset ", "<", "reports", "@", "example.org", ">">>,
     <<"superset">>}

RecipientConfigs ==
    {<<"{", "target", ":", "a@b.com", "}">>,
     <<"{", "target", ":", "", "}">>,
     <<"{", "address", ":", "a@b.com", "}">>,
     <<"{", "}">>,
     <<"[", "]">>,
     <<"{", "target">>}

Start ==
    /\ pc = "subject"
    /\ subject = <<>>
    /\ rendered = NoContent
    /\ to = <<>>
    /\ raised = NoException
    /\ calls = <<>>
    /\ sent = <<>>
    /\ outcomes = <<>>
    /\ log = <<>>

Init ==
    /\ content \in [name : {<<"Sales">>},
                    text : OptionalText,
                    description : {None, Some(<<>>), Some(SampleDescription)},
                    url : {Some(<<"http://x/y">>)},
                    embedded_data : {None, Some(SampleTable)},
                    screenshot : OptionalBytes("PNGDATA"),
                    csv : OptionalBytes("a,b\n1,2")]
    /\ config \in [SMTP_MAIL_FROM : FromAddresses,
                   EMAIL_REPORTS_SUBJECT_PREFIX : {<<"[Report]">>}]
    /\ recipient_config_json \in RecipientConfigs
    /\ Start

Spec == Init /\ [][Next]_vars

(* The sanitizer on every HTML input of at most MaxLen tokens *)

DescriptionTokens ==
    {Text("hi"), StartTag("b", {}), StartTag("a", {"href", "onclick"}),
     StartTag("script", {}), StartTag("img", {"src", "onerror"})}

EmbeddedTokens ==
    {Text("1"), StartTag("table", {}), StartTag("td", {"style", "onclick"}),
     StartTag("script", {}), EndTag("script")}

Html(tokens, n) == UNION {[1..k -> tokens] : k \in 0..n}

InitClean ==
    /\ content \in [name : {<<"Sales">>},
                    text : {None},
                    description : {Some(h) : h \in Html(DescriptionTokens, MaxLen)},
                    url : {Some(<<"http://x/y">>)},
                    embedded_data : {Some(h) : h \in Html(EmbeddedTokens, MaxLen)},
                    screenshot : {Some(<<"PNGDATA">>)},
                    csv : {None}]
    /\ config \in [SMTP_MAIL_FROM : {<<"superset", "@", "superset.com">>},
                   EMAIL_REPORTS_SUBJECT_PREFIX : {<<"[Report]">>}]
    /\ recipient_config_json = <<"{", "target", ":", "a@b.com", "}">>
    /\ Start

SpecClean == InitClean /\ [][Next]_vars

----------------------------------------------------------------------------
(* Properties *)

Called(c) == \E i \in DOMAIN calls : calls[i] = c

\* _get_content has returned a report body (not the error body, not yet nothing).
Report == rendered.body.template = "report"

TextOf(h) == SelectSeq(h, LAMBDA t : t.kind = "text")

TagsOf(h) == {h[i] : i \in {j \in DOMAIN h : IsTag(h[j])}}

\* C1: when the error text is set (non-empty), _get_content returns the error
\* template applied to that text, with no images and no file attachments,
\* whatever the other fields hold, and neither derives the domain, nor makes a
\* content id, nor sanitizes anything.
C1_ErrorTextShortCircuits ==
    (Truthy(content.text) /\ Called("_get_content")) =>
        /\ rendered.body.template = "error"
        /\ rendered.body.text = content.text[1]
        /\ rendered.data = None
        /\ rendered.images = None
        /\ ~Called("_get_smtp_domain")
        /\ ~Called("make_msgid")
        /\ ~Called("bleach.clean")
        /\ raised.type # "IndexError"

C1_Witness ==
    /\ pc = "to"
    /\ Truthy(content.text) /\ Truthy(content.description)
    /\ Truthy(content.embedded_data) /\ Truthy(content.screenshot)
    /\ Truthy(content.csv)
    /\ _get_smtp_domain(config).raised = "IndexError"
    /\ rendered.body.template = "error"

\* What C2 says of the embedded data: the tags off the table list removed,
\* the text kept, the tags left without attributes.
StrippedToTable(h) ==
    LET kept == SelectSeq(h, LAMBDA t : t.kind = "text" \/ t.name \in
                    {"table", "th", "tr", "td", "thead", "tbody", "tfoot"})
    IN  [i \in DOMAIN kept |-> [kept[i] EXCEPT !.attrs = {}]]

\* C2: the embedded data in the body keeps only table, th, tr, td, thead, tbody
\* and tfoot tags; every other tag is stripped, its inner text retained, and
\* every attribute of a surviving tag is stripped.
C2_EmbeddedDataStripped ==
    Report => rendered.body.embedded_data = StrippedToTable(OrEmpty(content.embedded_data))

C4_InlineImageMatchesBody ==
    (Report /\ ~Truthy(content.text)) =>
        /\ IF Truthy(content.screenshot)
           THEN /\ rendered.images # None
                /\ \E k \in DOMAIN rendered.images[1] :
                     /\ DOMAIN rendered.images[1] = {k}
                     /\ rendered.images[1][k] = content.screenshot[1]
                     /\ rendered.body.img_tag = ImgOpen \o k \o ImgClose
           ELSE /\ rendered.images = None
                /\ rendered.body.img_tag = <<>>
        /\ \A t \in TagsOf(rendered.body.description)
                    \cup TagsOf(rendered.body.embedded_data) : t.name # "img"
        /\ \A i \in DOMAIN sent :
             /\ sent[i].images = rendered.images
             /\ sent[i].html_content = rendered.body

C4_Witness ==
    /\ pc = "delivered"
    /\ Report
    /\ Truthy(content.screenshot)
    /\ rendered.images # None
    /\ Truthy(content.description)

C4_WitnessNoScreenshot ==
    pc = "delivered" /\ Report /\ content.screenshot = Some(<<>>)

\* C5: without error text, a csv gives exactly one file attachment, named
\* "<name>.csv" and holding the csv's bytes; no csv gives none; a screenshot
\* changes nothing of this.
C5_CsvAttachment ==
    (Report /\ ~Truthy(content.text)) =>
        /\ IF Truthy(content.csv)
           THEN /\ rendered.data # None
                /\ DOMAIN rendered.data[1] = {content.name \o <<".csv">>}
                /\ rendered.data[1][content.name \o <<".csv">>] = content.csv[1]
           ELSE rendered.data = None
        /\ \A i \in DOMAIN sent : sent[i].data = rendered.data

C5_Witness ==
    /\ pc = "delivered"
    /\ Truthy(content.csv) /\ Truthy(content.screenshot)
    /\ rendered.data # None /\ rendered.images # None

\* C6: a send_email_smtp call that raises makes send() raise a
\* NotificationError holding that exception, and writes no log record; the
\* log record is written only after send_email_smtp has returned.
C6_TransportFailureWrapped ==
    /\ \A i \in DOMAIN outcomes :
         outcomes[i] # "ok" =>
            /\ pc = "raised"
            /\ raised = [type |-> "NotificationError", cause |-> outcomes[i]]
            /\ log = <<>>
            /\ ~Called("logger.info")
    /\ log # <<>> =>
         /\ pc = "delivered"
         /\ log = <<"Report sent to email">>
         /\ outcomes = <<"ok">>
         /\ calls[Len(calls)] = "logger.info"
         /\ calls[Len(calls) - 1] = "send_email_smtp"

C6_Witness ==
    /\ pc = "raised"
    /\ outcomes = <<"ConnectionRefusedError">>
    /\ raised.cause = "ConnectionRefusedError"
    /\ log = <<>>

\* _get_to has run on this send's blob.
Resolved == Called("_get_to")

C7_WitnessTarget ==
    /\ pc = "delivered"
    /\ sent # <<>>
    /\ sent[1].to = <<"a@b.com">>

\* C8: an empty target fails fast: send_email_smtp is never called with an
\* empty destination, and the send never ends as delivered.
C8_EmptyTargetFailsFast ==
    /\ \A i \in DOMAIN sent : sent[i].to # <<>>
    /\ ~(pc = "delivered" /\ to = <<>>)

\* Rendering and recipient resolution succeed on this send's inputs.
RendersAndResolves ==
    /\ Truthy(content.text) \/ Len(split(parseaddr(config.SMTP_MAIL_FROM), "@")) >= 2
    /\ Len(recipient_config_json) = 5
    /\ recipient_config_json[2] = "target"

\* C9: a send whose rendering and recipient resolution succeed calls
\* send_email_smtp exactly once, whether the call returns or raises, also
\* when the error text is set: the error message is what is sent then.
C9_TransportExactlyOnce ==
    /\ Len(sent) <= 1
    /\ (pc \in Terminal /\ RendersAndResolves) =>
          /\ Len(sent) = 1
          /\ Len(outcomes) = 1
          /\ Truthy(content.text) =>
                /\ sent[1].html_content.template = "error"
                /\ sent[1].html_content.text = content.text[1]

C9_Witness ==
    /\ pc = "raised"
    /\ RendersAndResolves
    /\ Truthy(content.text)
    /\ Len(sent) = 1
    /\ outcomes = <<"SMTPAuthenticationError">>

\* C10 as stated: every send ends delivered or with a NotificationError, and
\* with no other exception.
C10_DeliveredOrNotificationError ==
    pc \in Terminal => (pc = "delivered" \/ raised.type = "NotificationError")

\* C10, amended: every send goes on until it ends, and ends in one of:
\* delivered (send_email_smtp returned); a NotificationError holding the
\* exception send_email_smtp raised; or, send_email_smtp not called, the
\* exception of rendering or recipient resolution as it is: IndexError from
\* a from-address without "@" (only without error text), JSONDecodeError,
\* KeyError or TypeError from the recipient blob.
C10_TerminalStates ==
    /\ pc \notin Terminal => ENABLED Next
    /\ pc = "delivered" => raised = NoException /\ outcomes = <<"ok">>
    /\ pc = "raised" =>
         \/ /\ raised.type = "NotificationError"
            /\ Len(outcomes) = 1
            /\ outcomes[1] # "ok"
            /\ raised.cause = outcomes[1]
         \/ /\ raised = [type |-> "IndexError", cause |-> ""]
            /\ sent = <<>>
            /\ ~Truthy(content.text)
            /\ ~Resolved
         \/ /\ raised.type \in {"JSONDecodeError", "KeyError", "TypeError"}
            /\ raised.cause = ""
            /\ sent = <<>>
            /\ Resolved

C10_Witness ==
    /\ pc = "raised"
    /\ raised.type = "IndexError"
    /\ config.SMTP_MAIL_FROM = <<"superset">>

====
